---------------------------- MODULE Spec2Model ----------------------------
(***************************************************************************)
(* postcli: the send pipeline (cli.py send), the contact store             *)
(* (contacts.py) and the link provider (links.py).                         *)
(*                                                                         *)
(* Text is modelled as a sequence of one-character strings, so that        *)
(* str.strip, str.lower and str.replace are computed and not assumed.      *)
(* A CSV file is [exists, rows]: rows is the sequence of parsed lines,     *)
(* each a sequence of cells; a zero-byte file has rows = <<>>.             *)
(***************************************************************************)
EXTENDS Integers, Sequences, FiniteSets, TLC

(* ------------------------------ bounds -------------------------------- *)

MaxContacts == 2      \* data rows of the contacts file in Init
MaxRuns == 2          \* consecutive invocations of `postcli send`
MaxHeaders == 3       \* columns of a header line given to _detect_column
MaxLines == 3         \* lines after the header of a file given to load_contacts

(* ------------------------------- text --------------------------------- *)

k_name == <<"n", "a", "m", "e">>
k_company == <<"c", "o", "m", "p", "a", "n", "y">>
k_email == <<"e", "m", "a", "i", "l">>
k_x == <<"x">>
k_linkedin == <<"l", "i", "n", "k", "e", "d", "i", "n">>
k_github == <<"g", "i", "t", "h", "u", "b">>
k_portfolio == <<"p", "o", "r", "t", "f", "o", "l", "i", "o">>
k_resume == <<"r", "e", "s", "u", "m", "e">>
k_sender_name == <<"s", "e", "n", "d", "e", "r", "_", "n", "a", "m", "e">>
k_phone == <<"p", "h", "o", "n", "e">>
k_number == <<"n", "u", "m", "b", "e", "r">>
h_E_mail == <<"E", "-", "m", "a", "i", "l">>
h_Full_Name == <<"F", "u", "l", "l", " ", "N", "a", "m", "e">>
h_Phone == <<"P", "h", "o", "n", "e">>
v_Ann == <<"A", "n", "n">>
v_Acme == <<"A", "c", "m", "e">>
v_a == <<"a", "@", "x">>
v_b_padded == <<" ", "b", "@", "x", " ">>
v_b == <<"b", "@", "x">>
v_Beta == <<"B", "e", "t", "a">>
v_c == <<"c", "@", "x">>
v_Cy == <<"C", "y">>
v_blank == <<" ", " ">>
v_gh == <<"g", "h", "/", "m", "e">>
v_huge == <<"...">>   \* a field longer than csv.field_size_limit()
t_Hi == <<"H", "i", " ">>
t_Re == <<"R", "e", " ">>

Whitespace == {" ", "\t", "\n", "\r"}

Upper == <<"A", "B", "C", "E", "F", "G", "H", "M", "N", "O", "P", "R", "W">>
Lower == <<"a", "b", "c", "e", "f", "g", "h", "m", "n", "o", "p", "r", "w">>

\* str.lower, one character
lower_char(c) ==
    IF \E j \in 1..Len(Upper) : Upper[j] = c
    THEN Lower[CHOOSE j \in 1..Len(Upper) : Upper[j] = c]
    ELSE c

\* str.lower
lower(s) == [j \in 1..Len(s) |-> lower_char(s[j])]

\* str.replace(c, "")
RECURSIVE remove_char(_, _)
remove_char(s, c) ==
    IF s = <<>> THEN <<>>
    ELSE IF Head(s) = c THEN remove_char(Tail(s), c)
    ELSE <<Head(s)>> \o remove_char(Tail(s), c)

\* str.strip
RECURSIVE lstrip(_)
lstrip(s) ==
    IF s = <<>> THEN <<>>
    ELSE IF Head(s) \in Whitespace THEN lstrip(Tail(s))
    ELSE s

RECURSIVE rstrip(_)
rstrip(s) ==
    IF s = <<>> THEN <<>>
    ELSE IF s[Len(s)] \in Whitespace THEN rstrip(SubSeq(s, 1, Len(s) - 1))
    ELSE s

strip(s) == rstrip(lstrip(s))

(* ---------------------------- contacts.py ----------------------------- *)

NAME_ALIASES ==
    { <<"n", "a", "m", "e">>,
      <<"f", "u", "l", "l", "n", "a", "m", "e">>,
      <<"f", "u", "l", "l", "_", "n", "a", "m", "e">>,
      <<"c", "o", "n", "t", "a", "c", "t", "n", "a", "m", "e">>,
      <<"c", "o", "n", "t", "a", "c", "t", "_", "n", "a", "m", "e">>,
      <<"r", "e", "c", "i", "p", "i", "e", "n", "t">>,
      <<"f", "i", "r", "s", "t", "n", "a", "m", "e">>,
      <<"f", "i", "r", "s", "t", "_", "n", "a", "m", "e">> }

EMAIL_ALIASES ==
    { <<"e", "m", "a", "i", "l">>,
      <<"e", "-", "m", "a", "i", "l">>,
      <<"m", "a", "i", "l">>,
      <<"e", "m", "a", "i", "l", "a", "d", "d", "r", "e", "s", "s">>,
      <<"e", "m", "a", "i", "l", "_", "a", "d", "d", "r", "e", "s", "s">>,
      <<"w", "o", "r", "k", "e", "m", "a", "i", "l">>,
      <<"w", "o", "r", "k", "_", "e", "m", "a", "i", "l">> }

COMPANY_ALIASES ==
    { <<"c", "o", "m", "p", "a", "n", "y">>,
      <<"c", "o", "m", "p", "a", "n", "y", "n", "a", "m", "e">>,
      <<"c", "o", "m", "p", "a", "n", "y", "_", "n", "a", "m", "e">>,
      <<"o", "r", "g", "a", "n", "i", "z", "a", "t", "i", "o", "n">>,
      <<"o", "r", "g">> }

\* header.lower().replace(" ", "").replace("_", "").replace("-", "").strip()
normalize_header(header) ==
    strip(remove_char(remove_char(remove_char(lower(header), " "), "_"), "-"))

\* The loop with the `not in mapping` tests dropped: the last matching
\* header of each field wins.
RECURSIVE detect_loop_last_wins(_, _)
detect_loop_last_wins(headers, n) ==
    IF n = 0 THEN <<>>
    ELSE LET mapping == detect_loop_last_wins(headers, n - 1)
             h == headers[n]
             norm == normalize_header(h)
             others(field) == [f \in DOMAIN mapping \ {field} |-> mapping[f]]
         IN  IF norm \in EMAIL_ALIASES THEN others("email") @@ ("email" :> h)
             ELSE IF norm \in NAME_ALIASES THEN others("name") @@ ("name" :> h)
             ELSE IF norm \in COMPANY_ALIASES
             THEN others("company") @@ ("company" :> h)
             ELSE mapping

\* The loop of _detect_column over headers[1..n]: a mapping
\* canonical name -> original header, as a function on a subset of
\* {"email", "name", "company"}.
RECURSIVE detect_loop(_, _)
detect_loop(headers, n) ==
    IF n = 0 THEN <<>>
    ELSE LET mapping == detect_loop(headers, n - 1)
             h == headers[n]
             norm == normalize_header(h)
         IN  IF norm \in EMAIL_ALIASES /\ "email" \notin DOMAIN mapping
             THEN mapping @@ ("email" :> h)
             ELSE IF norm \in NAME_ALIASES /\ "name" \notin DOMAIN mapping
             THEN mapping @@ ("name" :> h)
             ELSE IF norm \in COMPANY_ALIASES /\ "company" \notin DOMAIN mapping
             THEN mapping @@ ("company" :> h)
             ELSE mapping

\* _detect_column: [ok, mapping]; ok = FALSE is the ValueError
\* "Could not find email column ... Found headers: ...".
detect_column(headers) ==
    LET mapping == detect_loop(headers, Len(headers))
    IN  [ok |-> "email" \in DOMAIN mapping, mapping |-> mapping,
         found |-> headers]

\* csv.DictReader's row dict, read with row.get(key) or "": zip(fieldnames,
\* row) with the later duplicate winning, then every field past the row's
\* length set to None.
row_get(fieldnames, row, key) ==
    LET at == {j \in 1..Len(fieldnames) : fieldnames[j] = key}
    IN  IF at = {} \/ (\E j \in at : j > Len(row)) THEN <<>>
        ELSE row[CHOOSE j \in at : \A m \in at : m <= j]

\* dict.get(col_map.get(canonical, "")): an unmapped field reads column "".
mapped_header(mapping, canonical) ==
    IF canonical \in DOMAIN mapping THEN mapping[canonical] ELSE <<>>

canonical_header == <<k_name, k_company, k_email>>

\* The normalising loop of load_contacts over data rows 1..n; the Python
\* row number of data row j is j + 1 (row 1 is the header).
RECURSIVE normalize_rows(_, _, _, _)
normalize_rows(fieldnames, mapping, data, n) ==
    IF n = 0 THEN [ok |-> TRUE, error |-> "", row |-> 0, rows |-> <<>>]
    ELSE LET before == normalize_rows(fieldnames, mapping, data, n - 1)
             email == strip(row_get(fieldnames, data[n], mapping["email"]))
         IN  IF ~before.ok THEN before
             ELSE IF email = <<>>
             THEN [ok |-> FALSE, error |-> "missing_email", row |-> n + 1,
                   rows |-> <<>>]
             ELSE [before EXCEPT !.rows = Append(@,
                     [name |-> strip(row_get(fieldnames, data[n],
                                             mapped_header(mapping, "name"))),
                      company |-> strip(row_get(fieldnames, data[n],
                                             mapped_header(mapping, "company"))),
                      email |-> email])]

\* The rows csv.DictReader yields after the header: it passes over the
\* lines that parse to no cell at all (blank lines).
dict_rows(lines) == SelectSeq(lines, LAMBDA r : r # <<>>)

\* load_contacts on an existing file: [ok, error, row, rows]. The header is
\* the first line, blank or not; `row` is the number enumerate(rows, start=2)
\* gives the row in the ValueError "Row {i}: missing email".
load_contacts(file) ==
    IF file.rows = <<>> \/ Head(file.rows) = <<>>
    THEN [ok |-> FALSE, error |-> "no_headers", row |-> 0, rows |-> <<>>]
    ELSE LET headers == Head(file.rows)
             data == dict_rows(Tail(file.rows))
             col_map == detect_column(headers)
         IN  IF ~col_map.ok
             THEN [ok |-> FALSE, error |-> "missing_column", row |-> 0,
                   rows |-> <<>>]
             ELSE normalize_rows(headers, col_map.mapping, data, Len(data))

\* The csv reader raises csv.Error at a line that holds a field over the
\* field size limit.
raises_csv_error(line) == \E j \in 1..Len(line) : line[j] = v_huge

\* The lines the reader yields before it raises (all of them if it never
\* does).
RECURSIVE read_until_error(_)
read_until_error(lines) ==
    IF lines = <<>> \/ raises_csv_error(Head(lines)) THEN <<>>
    ELSE <<Head(lines)>> \o read_until_error(Tail(lines))

\* Every line read, whatever the reader raised.
read_all(lines) == lines

\* contacts.py 48-56: the loop runs inside try / except Exception: pass, so
\* it sees the lines up to the first one the reader raises at.
lines_seen(lines) == read_until_error(lines)

\* load_contacted_emails: the set of non-empty stripped values of the
\* column named exactly "email" of contacted.csv, over the rows read.
load_contacted_emails(file) ==
    IF ~file.exists \/ lines_seen(file.rows) = <<>> THEN {}
    ELSE LET fieldnames == Head(lines_seen(file.rows))
             data == Tail(lines_seen(file.rows))
         IN  {strip(row_get(fieldnames, data[j], k_email)) :
                 j \in 1..Len(data)} \ {<<>>}

\* One csv.DictWriter row of a contact dict, extrasaction="ignore".
csv_row(c) == <<c.name, c.company, c.email>>

\* The rows written last first.
csv_rows_reversed(contacts) ==
    [j \in 1..Len(contacts) |-> csv_row(contacts[Len(contacts) + 1 - j])]

\* writer.writerows(rows): one line per contact, in list order.
csv_rows(contacts) == [j \in 1..Len(contacts) |-> csv_row(contacts[j])]

\* write_contacts, file content after the `with` block.
write_contacts(rows) ==
    [exists |-> TRUE, rows |-> <<canonical_header>> \o csv_rows(rows)]

\* open(path, "w"): the file exists and is empty until the buffer is flushed.
open_truncate(file) == [exists |-> TRUE, rows |-> <<>>]

\* open(path, "a"): creates the file when absent, keeps its content otherwise.
open_append(file) ==
    IF file.exists THEN file ELSE [exists |-> TRUE, rows |-> <<>>]

\* append_contacted writing the header on every call.
append_contacted_always_header(file, file_exists, rows) ==
    [exists |-> TRUE,
     rows |-> (IF file.exists THEN file.rows ELSE <<>>)
              \o <<canonical_header>> \o csv_rows(rows)]

\* append_contacted with the header decided after the open, when the file
\* always exists.
append_contacted_never_header(file, file_exists, rows) ==
    [exists |-> TRUE,
     rows |-> (IF file.exists THEN file.rows ELSE <<>>) \o csv_rows(rows)]

\* append_contacted, file content after the `with` block; file_exists is
\* path.exists() taken before the open.
append_contacted(file, file_exists, rows) ==
    [exists |-> TRUE,
     rows |-> (IF file.exists THEN file.rows ELSE <<>>)
              \o (IF file_exists THEN <<>> ELSE <<canonical_header>>)
              \o csv_rows(rows)]

(* ------------------------------ links.py ------------------------------ *)

LinkKeys == {k_x, k_linkedin, k_github, k_portfolio, k_resume, k_sender_name}

empty_links == [k \in LinkKeys |-> <<>>]

\* load_links over the first links.json found: [ok, links]. kind "absent":
\* no file; "invalid_json": json.load raises JSONDecodeError; "object": a
\* JSON object, data its string members; "not_object": valid JSON that is
\* not an object (data.get raises AttributeError, which is not caught).
load_links(file) ==
    CASE file.kind = "absent" -> [ok |-> TRUE, links |-> empty_links]
      [] file.kind = "invalid_json" -> [ok |-> TRUE, links |-> empty_links]
      [] file.kind = "object" ->
            [ok |-> TRUE,
             links |-> [k \in LinkKeys |->
                          IF k \in DOMAIN file.data THEN file.data[k]
                          ELSE <<>>]]
      [] OTHER -> [ok |-> FALSE, links |-> empty_links]

(* ------------------------- jinja2 (as used) --------------------------- *)

\* A compiled template is a sequence of nodes [kind, key, attr]:
\*   "lit"  literal text key;  "var"  {{ key }};  "attr"  {{ key.attr }}.
Lit(text) == [kind |-> "lit", key |-> text, attr |-> <<>>]
Var(key) == [kind |-> "var", key |-> key, attr |-> <<>>]
Attr(key, attr) == [kind |-> "attr", key |-> key, attr |-> attr]

\* ctx = {**links, **contact}: the contact's fields override the links.
render_context(links, contact) ==
    [k \in LinkKeys \cup {k_name, k_company, k_email} |->
        IF k = k_name THEN contact.name
        ELSE IF k = k_company THEN contact.company
        ELSE IF k = k_email THEN contact.email
        ELSE links[k]]

\* One node under Environment()'s default `undefined` (jinja2.Undefined):
\* an unknown name prints as the empty string; an attribute of an unknown
\* name raises UndefinedError; an unknown attribute of a str is Undefined
\* again and prints as the empty string.
render_node(node, ctx) ==
    CASE node.kind = "lit" -> [ok |-> TRUE, text |-> node.key]
      [] node.kind = "var" ->
            [ok |-> TRUE,
             text |-> IF node.key \in DOMAIN ctx THEN ctx[node.key] ELSE <<>>]
      [] OTHER ->
            [ok |-> node.key \in DOMAIN ctx, text |-> <<>>]

\* Template.render(**ctx): [ok, text]; ok = FALSE is UndefinedError.
RECURSIVE render(_, _)
render(nodes, ctx) ==
    IF nodes = <<>> THEN [ok |-> TRUE, text |-> <<>>]
    ELSE LET first == render_node(Head(nodes), ctx)
             rest == render(Tail(nodes), ctx)
         IN  [ok |-> first.ok /\ rest.ok, text |-> first.text \o rest.text]

\* The names a template reads from the context.
referenced(nodes) ==
    {nodes[j].key : j \in {m \in 1..Len(nodes) : nodes[m].kind # "lit"}}

(* ------------------------- inputs of the model ------------------------ *)

\* Template sources: exists (the file is there), parses (jinja2 compiles
\* it), nodes (what it compiles to).
Tmpl(exists, parses, nodes) ==
    [exists |-> exists, parses |-> parses, nodes |-> nodes]

body_name == Tmpl(TRUE, TRUE, <<Lit(t_Hi), Var(k_name), Var(k_github)>>)
body_phone == Tmpl(TRUE, TRUE, <<Lit(t_Hi), Var(k_phone)>>)
body_phone_number == Tmpl(TRUE, TRUE, <<Lit(t_Hi), Attr(k_phone, k_number)>>)
body_syntax_error == Tmpl(TRUE, FALSE, <<>>)
body_missing == Tmpl(FALSE, FALSE, <<>>)

subject_default == Tmpl(TRUE, TRUE, <<Lit(t_Re), Var(k_company)>>)
subject_phone_number == Tmpl(TRUE, TRUE, <<Attr(k_phone, k_number)>>)
subject_syntax_error == Tmpl(TRUE, FALSE, <<>>)

\* (--template, --subject) pairs a run is started with.
Templates ==
    { <<body_name, subject_default>>,
      <<body_phone, subject_default>>,
      <<body_phone_number, subject_default>>,
      <<body_name, subject_phone_number>>,
      <<body_syntax_error, subject_default>>,
      <<body_name, subject_syntax_error>>,
      <<body_missing, subject_default>> }

\* --delay: none or some; --limit: none (0) or a number of contacts.
Delays == {0, 1}
Limits == 0..MaxContacts

\* The options of one `postcli send` invocation.
Options ==
    { [template |-> t[1], subject |-> t[2], delay |-> d, limit |-> l,
       skip_contacted |-> s, mutate |-> m, dry_run |-> y] :
         t \in Templates, d \in Delays, l \in Limits,
         s \in BOOLEAN, m \in BOOLEAN, y \in BOOLEAN }

\* Data rows under the canonical header name,company,email.
row_a == <<v_Ann, v_Acme, v_a>>
row_b == <<<<>>, v_Beta, v_b_padded>>
row_c == <<v_Cy, <<>>, v_c>>

RowPool == <<row_a, row_b, row_c>>

\* Sequences of pool indexes of length n in which a row appears only after
\* every earlier row of the pool has appeared (one file per pattern of
\* repeated and distinct rows).
RECURSIVE Patterns(_)
Patterns(n) ==
    IF n = 0 THEN {<<>>}
    ELSE {Append(p, j) : p \in Patterns(n - 1), j \in 1..Len(RowPool)}

first_use_ordered(p) ==
    \A j \in 1..Len(p) :
        p[j] = 1 \/ \E m \in 1..(j - 1) : p[m] = p[j] - 1

ContactRowLists ==
    UNION { { [j \in 1..n |-> RowPool[p[j]]] :
                p \in {q \in Patterns(n) : first_use_ordered(q)} } :
            n \in 0..MaxContacts }

CsvFile(rows) == [exists |-> TRUE, rows |-> rows]
NoFile == [exists |-> FALSE, rows |-> <<>>]

\* Contacts files at the start: the canonical layout with every row list,
\* three distinct rows, aliased headers in another column order, a header
\* with no email column, a row with a blank email, and no file at all.
ContactsFiles ==
    { CsvFile(<<canonical_header>> \o rs) : rs \in ContactRowLists }
    \cup { CsvFile(<<canonical_header, row_a, row_b, row_c>>),
           CsvFile(<<<<h_E_mail, h_Full_Name>>, <<v_b_padded, v_Ann>>,
                     <<v_a, v_blank>>>>),
           CsvFile(<<<<k_name, h_Phone>>, <<v_Ann, v_a>>>>),
           CsvFile(<<canonical_header, row_a, <<v_Cy, v_Acme, v_blank>>>>),
           NoFile }

row_unreadable == <<v_Cy, v_huge, v_c>>

\* contacted.csv at the start: absent, written by earlier runs, the
\* zero-byte file that open(path, "a") leaves when the process dies before
\* the first flush, or with a line in it that the csv reader raises at.
LedgerFiles ==
    { NoFile,
      CsvFile(<<>>),
      CsvFile(<<canonical_header, row_a>>),
      CsvFile(<<canonical_header, row_a, row_unreadable, row_b>>) }

LinksFiles ==
    { [kind |-> "absent", data |-> <<>>],
      [kind |-> "object", data |-> (k_github :> v_gh)],
      [kind |-> "not_object", data |-> <<>>] }

Min(a, b) == IF a < b THEN a ELSE b

emails_of(contacts) == [j \in 1..Len(contacts) |-> contacts[j].email]

email_set(contacts) == {contacts[j].email : j \in 1..Len(contacts)}

(* ------------------------------- state -------------------------------- *)

VARIABLES
    contactsFile,       \* the file at --contacts
    ledgerFile,         \* contacted.csv beside it
    linksFile,          \* links.json beside it
    run,                \* invocations started so far
    pc,                 \* where the current invocation is
    outcome,            \* why it ended ("" while running)
    opt,                \* its options
    rows,               \* send: rows
    already_contacted,  \* send: already_contacted
    links,              \* send: links
    i,                  \* send: loop index, 0-based
    sent,               \* send: sent
    rendered,           \* send: rendered
    rendered_subject,   \* send: rendered_subject
    file_exists,        \* append_contacted: file_exists
    smtp_open,          \* SMTP connections open now
    connects,           \* SMTP connections opened by this invocation
    attempted,          \* to_addr of each per-message connection attempt
    shown,              \* to_addr of each dry-run panel
    sleeps,             \* time.sleep calls of this invocation
    start,              \* both files as they were when it started
    prev,               \* summary of the invocation before it
    arg,                \* a function of contacts.py called on its own: input
    ret                 \* ... and what it returned

vars == <<contactsFile, ledgerFile, linksFile, run, pc, outcome, opt, rows,
          already_contacted, links, i, sent, rendered, rendered_subject,
          file_exists, smtp_open, connects, attempted, shown, sleeps, start,
          prev, arg, ret>>

files == <<contactsFile, ledgerFile, linksFile>>
locals == <<rows, already_contacted, links, i, sent, rendered,
            rendered_subject, file_exists>>
observed == <<smtp_open, connects, attempted, shown, sleeps>>
calls == <<arg, ret>>
fixed == <<run, opt, start, prev, calls>>

NoOptions ==
    [template |-> body_name, subject |-> subject_default, delay |-> 0,
     limit |-> 0, skip_contacted |-> FALSE, mutate |-> FALSE,
     dry_run |-> TRUE]

\* How an invocation ended, for the one after it: "committed" (live, the
\* loop ran to its end and the commit was written), "send_aborted" (live
\* with --mutate, aborted by a failed send), "other"; with the addresses it
\* sent to in the first two cases.
VerifyFailures ==
    {"config_missing", "connect_failed", "login_auth_failed", "login_failed"}

SendFailures == {"send_connect_failed", "send_auth_failed", "send_failed"}

NoPrev == [how |-> "none", sent |-> <<>>]

NoCall == [fn |-> "", value |-> <<>>]
NotReturned == [returned |-> FALSE, value |-> <<>>]

summary ==
    LET how == IF pc = "Done" /\ outcome = "committed" THEN "committed"
               ELSE IF pc = "Aborted" /\ opt.mutate /\ ~opt.dry_run
                       /\ outcome \in SendFailures
               THEN "send_aborted"
               ELSE "other"
    IN  [how |-> how,
         sent |-> IF how = "other" THEN <<>> ELSE emails_of(sent)]

Init ==
    /\ contactsFile \in ContactsFiles
    /\ ledgerFile \in LedgerFiles
    /\ linksFile \in LinksFiles
    /\ run = 0
    /\ pc = "Idle"
    /\ outcome = ""
    /\ opt = NoOptions
    /\ rows = <<>>
    /\ already_contacted = {}
    /\ links = empty_links
    /\ i = 0
    /\ sent = <<>>
    /\ rendered = <<>>
    /\ rendered_subject = <<>>
    /\ file_exists = FALSE
    /\ smtp_open = 0
    /\ connects = 0
    /\ attempted = <<>>
    /\ shown = <<>>
    /\ sleeps = 0
    /\ start = <<contactsFile, ledgerFile>>
    /\ prev = NoPrev
    /\ arg = NoCall
    /\ ret = NotReturned

Ended == pc \in {"Done", "Aborted", "Killed"}

\* raise SystemExit(1), or an uncaught exception
Abort(why) == pc' = "Aborted" /\ outcome' = why

\* return from send
Finish(why) == pc' = "Done" /\ outcome' = why

(* ------------------------------ cli.py send --------------------------- *)

\* `postcli send` is invoked with some options.
StartRun ==
    /\ pc = "Idle"
    /\ run < MaxRuns
    /\ \E o \in Options : opt' = o
    /\ run' = run + 1
    /\ pc' = "Loading"
    /\ start' = <<contactsFile, ledgerFile>>
    /\ UNCHANGED <<files, prev, outcome, locals, observed, calls>>

\* The process is gone: nothing of it is left but the files.
Exit ==
    /\ Ended
    /\ pc' = "Idle"
    /\ prev' = summary
    /\ outcome' = ""
    /\ rows' = <<>>
    /\ already_contacted' = {}
    /\ links' = empty_links
    /\ i' = 0
    /\ sent' = <<>>
    /\ rendered' = <<>>
    /\ rendered_subject' = <<>>
    /\ file_exists' = FALSE
    /\ smtp_open' = 0
    /\ connects' = 0
    /\ attempted' = <<>>
    /\ shown' = <<>>
    /\ sleeps' = 0
    /\ opt' = NoOptions
    /\ start' = <<contactsFile, ledgerFile>>
    /\ UNCHANGED <<files, run, calls>>

\* cli.py 61-79: the existence checks, load_contacts, the empty list.
Load ==
    /\ pc = "Loading"
    /\ IF ~opt.template.exists
       THEN Abort("template_not_found") /\ UNCHANGED rows
       ELSE IF ~contactsFile.exists
       THEN Abort("contacts_not_found") /\ UNCHANGED rows
       ELSE LET loaded == load_contacts(contactsFile)
            IN  IF ~loaded.ok
                THEN Abort(loaded.error) /\ UNCHANGED rows
                ELSE IF loaded.rows = <<>>
                THEN Finish("no_contacts") /\ UNCHANGED rows
                ELSE /\ rows' = loaded.rows
                     /\ pc' = "Filtering"
                     /\ UNCHANGED outcome
    /\ UNCHANGED <<files, fixed, observed, already_contacted, links, i, sent,
                   rendered, rendered_subject, file_exists>>

\* The filter with its test inverted: the contacted rows are kept.
not_contacted_inverted(rs, contacted) ==
    SelectSeq(rs, LAMBDA r : r.email \in contacted)

\* cli.py 83: rows whose email is not in already_contacted.
not_contacted(rs, contacted) ==
    SelectSeq(rs, LAMBDA r : r.email \notin contacted)

\* cli.py 88-89: rows[:limit] when limit > 0.
limited(rs, limit) ==
    IF limit > 0 THEN SubSeq(rs, 1, Min(limit, Len(rs))) ELSE rs

\* The limit taken first and the ledger filter after it.
send_list_limit_first(rs, contacted, limit) ==
    IF contacted # {} THEN not_contacted(limited(rs, limit), contacted)
    ELSE limited(rs, limit)

\* cli.py 82-89: the rows left by the ledger filter (applied when the set is
\* not empty), cut to the limit.
send_list(rs, contacted, limit) ==
    limited(IF contacted # {} THEN not_contacted(rs, contacted) ELSE rs, limit)

\* cli.py 81-89: the ledger filter, then the limit.
Filter ==
    /\ pc = "Filtering"
    /\ LET contacted == IF opt.skip_contacted
                        THEN load_contacted_emails(ledgerFile) ELSE {}
           kept == IF contacted # {} THEN not_contacted(rows, contacted)
                   ELSE rows
       IN  /\ already_contacted' = contacted
           /\ IF contacted # {} /\ kept = <<>>
              THEN Finish("all_contacted") /\ rows' = kept
              ELSE /\ rows' = send_list(rows, contacted, opt.limit)
                   /\ pc' = "Validating"
                   /\ UNCHANGED outcome
    /\ UNCHANGED <<files, fixed, observed, links, i, sent, rendered,
                   rendered_subject, file_exists>>

\* Only the body compiled up front.
compiles_body_only == opt.template.parses

\* cli.py 103-104: Environment().from_string(subject) and
\* env.get_template(...) both compile.
compiles == opt.subject.parses /\ opt.template.parses

\* The verification connection made in dry runs too.
after_validation_always_connects == "Connecting"

\* cli.py 109, 126: the verification connection is for live runs only.
after_validation == IF opt.dry_run THEN "Rendering" ELSE "Connecting"

\* cli.py 101-107: compile the subject, then the body, then load_links.
Validate ==
    /\ pc = "Validating"
    /\ IF ~compiles
       THEN Abort("template_syntax") /\ UNCHANGED links
       ELSE LET loaded == load_links(linksFile)
            IN  IF ~loaded.ok
                THEN Abort("links_error") /\ UNCHANGED links
                ELSE /\ links' = loaded.links
                     /\ pc' = after_validation
                     /\ UNCHANGED outcome
    /\ UNCHANGED <<files, fixed, observed, rows, already_contacted, i, sent,
                   rendered, rendered_subject, file_exists>>

\* cli.py 110-113: _get_smtp_config and the SMTP constructor of the
\* verification connection; either can fail before a connection exists.
Connect ==
    /\ pc = "Connecting"
    /\ \E result \in {"ok", "config_missing", "connect_failed"} :
          IF result = "ok"
          THEN /\ pc' = "Verifying"
               /\ smtp_open' = smtp_open + 1
               /\ connects' = connects + 1
               /\ UNCHANGED outcome
          ELSE /\ Abort(result)
               /\ UNCHANGED <<smtp_open, connects>>
    /\ UNCHANGED <<files, fixed, locals, attempted, shown, sleeps>>

\* The connection closed only after a block that ran to its end.
closes_on_success_only(result) == result = "ok"

\* cli.py 112, 157: `with smtplib.SMTP(...) as smtp` closes the connection
\* on every way out of the block, an exception included.
closes(result) == TRUE

\* Only the authentication error handled.
verify_aborts_auth_only(result) == result = "login_auth_failed"

\* cli.py 117-122: SMTPAuthenticationError and every other Exception end
\* the run.
verify_aborts(result) == result # "ok"

\* cli.py 114-122: starttls and login on the verification connection; the
\* `with` block closes it on every way out.
Verify ==
    /\ pc = "Verifying"
    /\ \E result \in {"ok", "login_auth_failed", "login_failed"} :
          /\ smtp_open' = IF closes(result) THEN smtp_open - 1 ELSE smtp_open
          /\ outcome' = IF result = "ok" THEN outcome ELSE result
          /\ pc' = IF verify_aborts(result) THEN "Aborted" ELSE "Rendering"
    /\ UNCHANGED <<files, fixed, locals, connects, attempted, shown, sleeps>>

\* cli.py 133-148: one iteration up to the dry-run panel.
Render ==
    /\ pc = "Rendering"
    /\ i < Len(rows)
    /\ LET contact == rows[i + 1]
           ctx == render_context(links, contact)
           body == render(opt.template.nodes, ctx)
           subj == render(opt.subject.nodes, ctx)
           to_addr == strip(contact.email)
       IN  IF ~body.ok \/ ~subj.ok
           THEN /\ Abort("undefined_error")
                /\ UNCHANGED <<i, rendered, rendered_subject, shown>>
           ELSE /\ rendered' = body.text
                /\ rendered_subject' = subj.text
                /\ UNCHANGED outcome
                /\ IF to_addr = <<>>
                   THEN i' = i + 1 /\ UNCHANGED <<pc, shown>>
                   ELSE IF opt.dry_run
                   THEN /\ shown' = Append(shown, to_addr)
                        /\ i' = i + 1
                        /\ UNCHANGED pc
                   ELSE pc' = "Opening" /\ UNCHANGED <<i, shown>>
    /\ UNCHANGED <<files, fixed, rows, already_contacted, links, sent,
                   file_exists, smtp_open, connects, attempted, sleeps>>

\* Only the authentication error ends the run; other failures go on to
\* the next recipient.
send_aborts_auth_only(result) == result = "send_auth_failed"

\* cli.py 164-169: SMTPAuthenticationError and every other Exception end
\* the run.
send_aborts(result) == result # "ok"

\* cli.py 157: the SMTP constructor of the per-message connection.
Open ==
    /\ pc = "Opening"
    /\ attempted' = Append(attempted, strip(rows[i + 1].email))
    /\ \E result \in {"ok", "send_connect_failed"} :
          /\ outcome' = IF result = "ok" THEN outcome ELSE result
          /\ IF result = "ok"
             THEN /\ pc' = "Delivering"
                  /\ smtp_open' = smtp_open + 1
                  /\ connects' = connects + 1
             ELSE /\ pc' = IF send_aborts(result) THEN "Aborted"
                           ELSE "Rendering"
                  /\ UNCHANGED <<smtp_open, connects>>
    /\ i' = IF pc' = "Rendering" THEN i + 1 ELSE i
    /\ UNCHANGED <<files, fixed, rows, already_contacted, links, sent,
                   rendered, rendered_subject, file_exists, shown, sleeps>>

\* The sleep after every send, the last one included.
sleeps_after_every_send(k) == opt.delay > 0

\* cli.py 171: sleep only with a delay and a later recipient.
sleeps_after(k) == opt.delay > 0 /\ k < Len(rows) - 1

\* cli.py 158-172: starttls, login, sendmail; the `with` block closes the
\* connection on every way out.
Deliver ==
    /\ pc = "Delivering"
    /\ \E result \in {"ok", "send_auth_failed", "send_failed"} :
          /\ smtp_open' = IF closes(result) THEN smtp_open - 1 ELSE smtp_open
          /\ outcome' = IF result = "ok" THEN outcome ELSE result
          /\ IF result = "ok"
             THEN /\ sent' = Append(sent, rows[i + 1])
                  /\ IF sleeps_after(i)
                     THEN pc' = "Sleeping" /\ UNCHANGED i
                     ELSE pc' = "Rendering" /\ i' = i + 1
             ELSE /\ UNCHANGED sent
                  /\ IF send_aborts(result)
                     THEN pc' = "Aborted" /\ UNCHANGED i
                     ELSE pc' = "Rendering" /\ i' = i + 1
    /\ UNCHANGED <<files, fixed, rows, already_contacted, links, rendered,
                   rendered_subject, file_exists, connects, attempted, shown,
                   sleeps>>

\* cli.py 172: time.sleep(delay)
Sleep ==
    /\ pc = "Sleeping"
    /\ sleeps' = sleeps + 1
    /\ i' = i + 1
    /\ pc' = "Rendering"
    /\ UNCHANGED <<files, fixed, outcome, rows, already_contacted, links,
                   sent, rendered, rendered_subject, file_exists, smtp_open,
                   connects, attempted, shown>>

\* The commit without the --mutate opt-in.
should_commit_without_mutate == ~opt.dry_run /\ sent # <<>>

\* cli.py 174: if not dry_run and sent and mutate
should_commit == ~opt.dry_run /\ sent # <<>> /\ opt.mutate

\* cli.py 174: after the loop.
EndLoop ==
    /\ pc = "Rendering"
    /\ i = Len(rows)
    /\ IF should_commit
       THEN pc' = "Committing" /\ UNCHANGED outcome
       ELSE Finish("completed")
    /\ UNCHANGED <<files, fixed, locals, observed>>

\* contacts.py 113-115: file_exists = path.exists(); open(path, "a").
AppendOpen ==
    /\ pc = "Committing"
    /\ file_exists' = ledgerFile.exists
    /\ ledgerFile' = open_append(ledgerFile)
    /\ pc' = "Appending"
    /\ UNCHANGED <<contactsFile, linksFile, fixed, outcome, rows,
                   already_contacted, links, i, sent, rendered,
                   rendered_subject, observed>>

\* contacts.py 116-119: the header when the file was absent, then the rows,
\* on disk when the `with` block closes the file.
AppendFlush ==
    /\ pc = "Appending"
    /\ ledgerFile' = append_contacted(ledgerFile, file_exists, sent)
    /\ pc' = "Rewriting"
    /\ UNCHANGED <<contactsFile, linksFile, fixed, outcome, locals, observed>>

\* The comprehension with its test inverted: the sent rows are kept.
remaining_keeps_sent(rs, done) ==
    SelectSeq(rs, LAMBDA c : c.email \in email_set(done))

\* cli.py 177: the rows whose email was not sent to.
remaining(rs, done) ==
    SelectSeq(rs, LAMBDA c : c.email \notin email_set(done))

\* contacts.py 102: open(path, "w") truncates the contacts file.
WriteOpen ==
    /\ pc = "Rewriting"
    /\ contactsFile' = open_truncate(contactsFile)
    /\ pc' = "Writing"
    /\ UNCHANGED <<ledgerFile, linksFile, fixed, outcome, locals, observed>>

\* contacts.py 103-105 with cli.py 177-179: the header and the remaining
\* rows, on disk when the `with` block closes the file.
WriteFlush ==
    /\ pc = "Writing"
    /\ contactsFile' = write_contacts(remaining(rows, sent))
    /\ Finish("committed")
    /\ UNCHANGED <<ledgerFile, linksFile, fixed, locals, observed>>

\* The process is killed (SIGKILL) between two steps of an invocation.
Kill ==
    /\ ~Ended
    /\ pc' = "Killed"
    /\ outcome' = pc
    /\ UNCHANGED <<files, fixed, locals, observed>>

Next ==
    \/ StartRun
    \/ Exit
    \/ Load
    \/ Filter
    \/ Validate
    \/ Connect
    \/ Verify
    \/ Render
    \/ Open
    \/ Deliver
    \/ Sleep
    \/ EndLoop
    \/ AppendOpen
    \/ AppendFlush
    \/ WriteOpen
    \/ WriteFlush
    \/ Kill

Spec == Init /\ [][Next]_vars

(* ------------------- contacts.py, function by function ---------------- *)

\* Header lines: every list of at most MaxHeaders of these headers.
HeaderPool == {k_email, h_E_mail, k_name, h_Full_Name, k_company, h_Phone}

HeaderLists == UNION {[1..n -> HeaderPool] : n \in 0..MaxHeaders}

\* Lines after the header: contact rows, a row with a blank email, a row
\* cut short before the email cell, a blank line.
row_blank_email == <<v_Cy, v_Acme, v_blank>>
row_short == <<v_Ann>>
blank_line == <<>>

LinePool == {row_a, row_b, row_blank_email, row_short, blank_line}

LineLists == UNION {[1..n -> LinePool] : n \in 0..MaxLines}

\* Files load_contacts is called on: the canonical header over every list
\* of lines, and the contacts files of Init that exist.
LoadInputs ==
    { CsvFile(<<canonical_header>> \o ls) : ls \in LineLists }
    \cup { f \in ContactsFiles : f.exists }

CallArgs ==
    { [fn |-> "detect_column", value |-> hs] : hs \in HeaderLists }
    \cup { [fn |-> "load_contacts", value |-> f] : f \in LoadInputs }

\* No invocation of send: one function of contacts.py is about to be called.
InitCalls ==
    /\ contactsFile = NoFile
    /\ ledgerFile = NoFile
    /\ linksFile = [kind |-> "absent", data |-> <<>>]
    /\ run = 0
    /\ pc = "Idle"
    /\ outcome = ""
    /\ opt = NoOptions
    /\ rows = <<>>
    /\ already_contacted = {}
    /\ links = empty_links
    /\ i = 0
    /\ sent = <<>>
    /\ rendered = <<>>
    /\ rendered_subject = <<>>
    /\ file_exists = FALSE
    /\ smtp_open = 0
    /\ connects = 0
    /\ attempted = <<>>
    /\ shown = <<>>
    /\ sleeps = 0
    /\ start = <<contactsFile, ledgerFile>>
    /\ prev = NoPrev
    /\ arg \in CallArgs
    /\ ret = NotReturned

Returned(value) == [returned |-> TRUE, value |-> value]

\* contacts.py 18-39: _detect_column(headers)
DetectColumn ==
    /\ arg.fn = "detect_column"
    /\ ~ret.returned
    /\ ret' = Returned(detect_column(arg.value))
    /\ UNCHANGED <<files, run, pc, outcome, opt, start, prev, locals,
                   observed, arg>>

\* contacts.py 60-93: load_contacts(path) on an existing file
LoadContacts ==
    /\ arg.fn = "load_contacts"
    /\ ~ret.returned
    /\ ret' = Returned(load_contacts(arg.value))
    /\ UNCHANGED <<files, run, pc, outcome, opt, start, prev, locals,
                   observed, arg>>

NextCalls ==
    \/ DetectColumn
    \/ LoadContacts

SpecCalls == InitCalls /\ [][NextCalls]_vars

(* ------------------------------- claims ------------------------------- *)

CommitSteps == {"Committing", "Appending", "Rewriting", "Writing"}

\* The contacts the invocation loaded from the contacts file it started on.
loaded_at_start ==
    IF start[1].exists THEN load_contacts(start[1]).rows ELSE <<>>

\* The addresses recorded in a ledger file: the email cell of every line
\* that is not the header line.
recorded_emails(file) ==
    {strip(file.rows[j][3]) :
        j \in {m \in 1..Len(file.rows) : file.rows[m] # canonical_header}}

\* What a completed commit leaves: the ledger it started on (with the header
\* if it had to be created) followed by the sent contacts in send order, and
\* a contacts file of the header and the unsent rows of the send list.
post_commit ==
    <<[exists |-> TRUE,
       rows |-> <<canonical_header>> \o
                csv_rows(SelectSeq(rows,
                    LAMBDA c : \A j \in 1..Len(sent) : sent[j].email # c.email))],
      [exists |-> TRUE,
       rows |-> (IF start[2].exists THEN start[2].rows
                 ELSE <<canonical_header>>) \o csv_rows(sent)]>>

\* C1: with --skip-contacted, no message is sent to an address that the
\* ledger held when the invocation started.
C1_NoSendToLedgerEmail ==
    opt.skip_contacted =>
        \A j \in 1..Len(sent) : sent[j].email \notin recorded_emails(start[2])

\* C2: a committed live run with 0 < limit < N (no ledger filter) sent to
\* exactly the first `limit` contacts, and every contact beyond the limit
\* is still in the contacts file.
C2_BeyondLimitKept ==
    (/\ pc = "Done" /\ outcome = "committed"
     /\ ~opt.skip_contacted
     /\ 0 < opt.limit /\ opt.limit < Len(loaded_at_start))
    => /\ sent = SubSeq(loaded_at_start, 1, opt.limit)
       /\ contactsFile.exists
       /\ load_contacts(contactsFile).ok
       /\ \A j \in (opt.limit + 1)..Len(loaded_at_start) :
             \E m \in 1..Len(load_contacts(contactsFile).rows) :
                load_contacts(contactsFile).rows[m] = loaded_at_start[j]

\* C3: the contacts file or the ledger differs from what the invocation
\* started on only if a send succeeded, --dry-run is off and --mutate is on.
C3_FilesChangeOnlyOnCommit ==
    (pc # "Idle" /\ <<contactsFile, ledgerFile>> # start)
    => (sent # <<>> /\ ~opt.dry_run /\ opt.mutate)

C3_Witness ==
    /\ pc = "Done" /\ outcome = "committed"
    /\ contactsFile # start[1] /\ ledgerFile # start[2]

\* C4: a dry run opens no connection, never sleeps, and when its loop has
\* run to the end every recipient of the list has been shown, in order.
C4_DryRunNoTransport ==
    (pc # "Idle" /\ opt.dry_run)
    => /\ connects = 0 /\ smtp_open = 0 /\ attempted = <<>> /\ sent = <<>>
       /\ sleeps = 0
       /\ pc \notin {"Connecting", "Verifying", "Opening", "Delivering",
                     "Sleeping"}
       /\ (pc = "Rendering" => shown = SubSeq(emails_of(rows), 1, i))
       /\ (pc = "Done" /\ outcome = "completed" => shown = emails_of(rows))

C4_Witness ==
    /\ opt.dry_run /\ opt.mutate /\ opt.skip_contacted /\ opt.delay > 0
    /\ pc = "Done" /\ outcome = "completed"
    /\ Len(shown) >= 2

\* C5: a failed verification connection aborts the run with nothing
\* rendered, no per-message connection and both files as they were.
C5_VerifyFailureAborts ==
    outcome \in VerifyFailures
    => /\ pc = "Aborted"
       /\ i = 0 /\ rendered = <<>> /\ rendered_subject = <<>>
       /\ attempted = <<>> /\ sent = <<>> /\ shown = <<>>
       /\ connects <= 1 /\ smtp_open = 0
       /\ <<contactsFile, ledgerFile>> = start

C5_Witness ==
    /\ pc = "Aborted" /\ outcome = "login_auth_failed"
    /\ opt.mutate /\ Len(rows) >= 2

\* C6: a failed send to recipient i aborts the run at once: recipients
\* 0..i-1 are the sent ones, recipient i is the last one attempted, the
\* only sleeps are those between earlier sends, and both files are as they
\* were.
C6_SendFailureAborts ==
    outcome \in SendFailures
    => /\ pc = "Aborted"
       /\ emails_of(sent) = SubSeq(emails_of(rows), 1, i)
       /\ attempted = SubSeq(emails_of(rows), 1, i + 1)
       /\ sleeps = (IF opt.delay > 0 THEN i ELSE 0)
       /\ smtp_open = 0
       /\ <<contactsFile, ledgerFile>> = start

C6_Witness ==
    /\ pc = "Aborted" /\ outcome = "send_failed"
    /\ opt.mutate /\ opt.delay > 0
    /\ sent # <<>> /\ i + 1 < Len(rows)

\* C7 as stated: whenever the process is killed, both files are as they
\* were before the run or as a completed commit leaves them.
C7_KilledAllOrNothing ==
    pc = "Killed"
    => \/ <<contactsFile, ledgerFile>> = start
       \/ <<contactsFile, ledgerFile>> = post_commit

\* C7 amended: a kill before Committing begins leaves both files as they
\* were before the run, and a run whose Committing step completes leaves
\* them in the post-commit state.
C7_AllOrNothingOutsideCommit ==
    /\ (pc = "Killed" /\ outcome \notin CommitSteps
            => <<contactsFile, ledgerFile>> = start)
    /\ (pc = "Done" /\ outcome = "committed"
            => <<contactsFile, ledgerFile>> = post_commit)
    /\ (pc \notin CommitSteps \cup {"Killed", "Done", "Idle"}
            => <<contactsFile, ledgerFile>> = start)

C7_Witness ==
    /\ pc = "Killed" /\ outcome = "Rendering"
    /\ opt.mutate /\ ~opt.dry_run /\ sent # <<>>

\* C8: in a run with --skip-contacted that follows a committed live run,
\* fewer messages are sent than in that run, none of them to an address it
\* sent to.
C8_SecondRunSendsFewer ==
    (prev.how = "committed" /\ opt.skip_contacted)
    => /\ Len(attempted) < Len(prev.sent)
       /\ Len(sent) < Len(prev.sent)
       /\ \A j \in 1..Len(attempted) :
             \A m \in 1..Len(prev.sent) : attempted[j] # prev.sent[m]

C8_Witness ==
    /\ prev.how = "committed" /\ opt.skip_contacted
    /\ pc = "Done"

ContextKeys == LinkKeys \cup {k_name, k_company, k_email}

\* The run's templates read a name that is not a key of the context.
reads_undefined ==
    (referenced(opt.template.nodes) \cup referenced(opt.subject.nodes))
        \ ContextKeys # {}

\* C9: when a template reads a name that is not a context key, the run
\* aborts at the first render: nothing is shown and no send is attempted.
C9_UndefinedVariableAborts ==
    (pc # "Idle" /\ reads_undefined)
    => /\ attempted = <<>> /\ shown = <<>> /\ sent = <<>>
       /\ pc \notin {"Opening", "Delivering", "Sleeping"} \cup CommitSteps

\* C10: with a template that is missing or does not compile, the run never
\* gets past validation: no connection is opened, nothing is rendered, both
\* files are as they were, and it ends aborted unless the list was already
\* empty.
C10_BadTemplateNoSideEffects ==
    (pc # "Idle" /\ (~opt.template.exists \/ ~opt.template.parses
                        \/ ~opt.subject.parses))
    => /\ pc \in {"Loading", "Filtering", "Validating", "Aborted", "Done",
                  "Killed"}
       /\ connects = 0 /\ smtp_open = 0 /\ attempted = <<>> /\ shown = <<>>
       /\ rendered = <<>> /\ rendered_subject = <<>>
       /\ <<contactsFile, ledgerFile>> = start
       /\ (pc = "Done" => outcome \in {"no_contacts", "all_contacted"})
       /\ (~opt.template.exists /\ pc \in {"Aborted", "Done"}
              => outcome = "template_not_found")

C10_Witness ==
    /\ pc = "Aborted" /\ outcome = "template_syntax"
    /\ opt.subject.parses = FALSE /\ opt.mutate /\ ~opt.dry_run
    /\ Len(rows) >= 1


\* `whole` begins with `head`; added(head, whole) is what follows it.
extends(head, whole) ==
    Len(head) <= Len(whole) /\ SubSeq(whole, 1, Len(head)) = head

added(head, whole) == SubSeq(whole, Len(head) + 1, Len(whole))

\* C11: the ledger only grows by append: every step keeps the file and its
\* lines as a prefix of what it has afterwards, and a header line is added
\* only to a file the append has just created.
C11_LedgerAppendOnly ==
    [][/\ (ledgerFile.exists => ledgerFile'.exists)
       /\ extends(ledgerFile.rows, ledgerFile'.rows)
       /\ (\E j \in 1..Len(added(ledgerFile.rows, ledgerFile'.rows)) :
               added(ledgerFile.rows, ledgerFile'.rows)[j] = canonical_header)
          => (/\ ~start[2].exists
              /\ ledgerFile.rows = <<>>
              /\ ledgerFile'.rows[1] = canonical_header
              /\ \A j \in 2..Len(ledgerFile'.rows) :
                    ledgerFile'.rows[j] # canonical_header)]_vars

C11_Witness ==
    /\ pc = "Done" /\ outcome = "committed"
    /\ Len(start[2].rows) >= 2
    /\ Len(ledgerFile.rows) >= Len(start[2].rows) + 2

(* The first header of hs whose normalized form is in `aliases`; 0 if none. *)
first_match(hs, aliases) ==
    LET at == {j \in 1..Len(hs) : normalize_header(hs[j]) \in aliases}
    IN  IF at = {} THEN 0 ELSE CHOOSE j \in at : \A m \in at : j <= m

aliases_of(field) ==
    IF field = "email" THEN EMAIL_ALIASES
    ELSE IF field = "name" THEN NAME_ALIASES
    ELSE COMPANY_ALIASES

\* The line of the file (header = line 1) of the first row whose email is
\* blank after trimming; 0 if there is none. Blank lines are not rows.
first_blank_email(lines) ==
    LET col == detect_column(Head(lines)).mapping["email"]
        at == {j \in 2..Len(lines) :
                 /\ lines[j] # <<>>
                 /\ strip(row_get(Head(lines), lines[j], col)) = <<>>}
    IN  IF at = {} THEN 0 ELSE CHOOSE j \in at : \A m \in at : j <= m

\* C12: load_contacts fails on the first row with a blank email, citing the
\* number of that row in the file (header = row 1) and returning nothing;
\* with no such row it returns one record per row, in file order, each with
\* its trimmed, non-empty email.
C12_MissingEmailRowNumber ==
    (/\ arg.fn = "load_contacts" /\ ret.returned
     /\ first_match(Head(arg.value.rows), EMAIL_ALIASES) # 0)
    => LET lines == arg.value.rows
           col == detect_column(Head(lines)).mapping["email"]
           data == SelectSeq(Tail(lines), LAMBDA r : r # <<>>)
           r == ret.value
       IN  IF first_blank_email(lines) # 0
           THEN /\ ~r.ok /\ r.error = "missing_email" /\ r.rows = <<>>
                /\ r.row = first_blank_email(lines)
           ELSE /\ r.ok
                /\ Len(r.rows) = Len(data)
                /\ \A j \in 1..Len(data) :
                      /\ r.rows[j].email # <<>>
                      /\ r.rows[j].email =
                            strip(row_get(Head(lines), data[j], col))

\* C13: _detect_column maps each of email, name, company to the first
\* header whose normalized form is in the field's alias set, maps a field
\* with no such header to nothing, and fails, naming the headers it was
\* given, exactly when no header is in the email alias set; load_contacts
\* gives the missing-column error for exactly those header lines.
C13_FirstMatchingHeaderWins ==
    /\ (arg.fn = "detect_column" /\ ret.returned)
       => /\ \A field \in {"email", "name", "company"} :
                IF first_match(arg.value, aliases_of(field)) = 0
                THEN field \notin DOMAIN ret.value.mapping
                ELSE /\ field \in DOMAIN ret.value.mapping
                     /\ ret.value.mapping[field] =
                          arg.value[first_match(arg.value, aliases_of(field))]
          /\ ret.value.ok = (first_match(arg.value, EMAIL_ALIASES) # 0)
          /\ ret.value.found = arg.value
    /\ (arg.fn = "load_contacts" /\ ret.returned
            /\ Head(arg.value.rows) # <<>>)
       => ((ret.value.error = "missing_column")
              = (first_match(Head(arg.value.rows), EMAIL_ALIASES) = 0))

C13_Witness ==
    /\ arg.fn = "detect_column" /\ ret.returned
    /\ arg.value = <<h_Full_Name, h_E_mail, k_email>>
    /\ ret.value.ok
    /\ ret.value.mapping["email"] = h_E_mail
    /\ ret.value.mapping["name"] = h_Full_Name


\* The invocation is past the ledger filter (cli.py 81-86).
filtered ==
    /\ pc \notin {"Idle", "Loading", "Filtering"}
    /\ outcome \notin {"Loading", "Filtering", "template_not_found",
                        "contacts_not_found", "no_headers", "missing_column",
                        "missing_email", "no_contacts"}

\* The line of the ledger the reader raises at; 0 if it reads them all.
first_failure(lines) ==
    LET at == {j \in 1..Len(lines) : raises_csv_error(lines[j])}
    IN  IF at = {} THEN 0 ELSE CHOOSE j \in at : \A m \in at : j <= m

\* The non-empty trimmed emails of the ledger rows read before the failure.
emails_before_failure(file) ==
    LET last == IF first_failure(file.rows) = 0 THEN Len(file.rows)
                ELSE first_failure(file.rows) - 1
    IN  {strip(row_get(file.rows[1], file.rows[j], k_email)) : j \in 2..last}
            \ {<<>>}

\* The ledger filter has just been applied.
just_filtered ==
    pc = "Validating" \/ (pc = "Done" /\ outcome = "all_contacted")

\* C14: reading the ledger never ends the run: the skip set the filter is
\* applied with is empty when the ledger is absent (or --skip-contacted is
\* off) and otherwise holds exactly the non-empty trimmed emails of the rows
\* read before the reader raised; the run goes on to the template, and no
\* run aborts for a reason of the ledger.
C14_LedgerReadNeverFails ==
    /\ just_filtered =>
          already_contacted =
             (IF opt.skip_contacted /\ start[2].exists
              THEN emails_before_failure(start[2]) ELSE {})
    /\ (filtered /\ ~(opt.skip_contacted /\ start[2].exists)
          => already_contacted = {})
    /\ (filtered /\ pc = "Aborted"
          => outcome \in {"template_syntax", "links_error", "undefined_error"}
                         \cup VerifyFailures \cup SendFailures)

C14_Witness ==
    /\ pc = "Done" /\ outcome = "completed"
    /\ opt.skip_contacted
    /\ first_failure(start[2].rows) = 3
    /\ already_contacted = {v_a}
    /\ Len(rows) >= 1

\* C15: whatever links.json holds, load_links gives the run a context of
\* the six link keys and the run does not end there.
C15_LinksNeverFailRun ==
    /\ outcome # "links_error"
    /\ (pc \in {"Connecting", "Verifying", "Rendering"}
            => DOMAIN links = LinkKeys)

\* The send list for a skip set: the loaded contacts in file order without
\* those of the skip set, then cut to --limit.
target(contacted) ==
    limited(SelectSeq(loaded_at_start, LAMBDA r : r.email \notin contacted),
            opt.limit)

\* The recipients attempted (shown, in a dry run) are a prefix of `list`,
\* and all of it when the loop has run to its end.
targets(list) ==
    /\ extends(attempted, emails_of(list))
    /\ extends(shown, emails_of(list))
    /\ (pc = "Done" /\ outcome \in {"completed", "committed"}
          => IF opt.dry_run THEN shown = emails_of(list)
             ELSE attempted = emails_of(list))

\* A recipient has been shown or attempted, or the loop has run to its end
\* (before that the recipients are the empty prefix of any list).
in_or_after_loop ==
    \/ attempted # <<>>
    \/ shown # <<>>
    \/ pc = "Done" /\ outcome \in {"completed", "committed"}

C17_OneConnectionAtATime ==
    /\ smtp_open \in {0, 1}
    /\ (smtp_open = 1
          => \/ pc \in {"Verifying", "Delivering"}
             \/ pc = "Killed" /\ outcome \in {"Verifying", "Delivering"})
    /\ (pc \in {"Verifying", "Delivering"} => smtp_open = 1)
    /\ connects <= 1 + Len(attempted)
    /\ (sent # <<>> => Len(sent) <= connects - 1)
    /\ (pc = "Delivering" => connects = 1 + Len(attempted)
                                /\ Len(sent) = Len(attempted) - 1)

C17_Witness ==
    /\ pc = "Delivering"
    /\ smtp_open = 1 /\ connects = 3
    /\ Len(sent) = 1

\* C18: once the append of the commit is written the ledger is what the
\* run started on (with the header if it had to be created) followed by the
\* sent records in send order; a completed commit leaves a contacts file of
\* the header and the unsent records of the send list in list order, none
\* with a sent email; and at no time has the ledger gained a line that is
\* not the header or a sent record.
C18_CommitWritesSent ==
    /\ (pc \in {"Rewriting", "Writing"} \/ (pc = "Done" /\ outcome = "committed")
          => ledgerFile.rows =
                start[2].rows
                \o (IF start[2].exists THEN <<>> ELSE <<canonical_header>>)
                \o [j \in 1..Len(sent) |->
                       <<sent[j].name, sent[j].company, sent[j].email>>])
    /\ (pc = "Done" /\ outcome = "committed"
          => /\ contactsFile.rows[1] = canonical_header
             /\ Tail(contactsFile.rows) =
                   csv_rows(SelectSeq(rows,
                                LAMBDA c : c.email \notin email_set(sent)))
             /\ \A j \in 2..Len(contactsFile.rows) :
                   contactsFile.rows[j][3] \notin email_set(sent))
    /\ (pc # "Idle"
          => /\ extends(start[2].rows, ledgerFile.rows)
             /\ \A j \in 1..Len(added(start[2].rows, ledgerFile.rows)) :
                   \/ added(start[2].rows, ledgerFile.rows)[j] = canonical_header
                   \/ \E m \in 1..Len(sent) :
                         added(start[2].rows, ledgerFile.rows)[j]
                            = <<sent[m].name, sent[m].company, sent[m].email>>)

C18_Witness ==
    /\ pc = "Done" /\ outcome = "committed"
    /\ Len(sent) >= 2
    /\ sent[1].email # sent[2].email
    /\ start[2].exists /\ start[2].rows # <<>>

\* C19: a live run with --mutate that aborts on a failed send leaves both
\* files as it found them, and the run after it, with --skip-contacted and
\* no limit, has in its send list every address the aborted run sent to
\* that the skip set does not hold.
C19_AbortedSendsAreTargetedAgain ==
    /\ (pc = "Aborted" /\ outcome \in SendFailures /\ opt.mutate
          => ledgerFile = start[2] /\ contactsFile = start[1])
    /\ (prev.how = "send_aborted" /\ opt.skip_contacted /\ opt.limit = 0
            /\ filtered
          => \A j \in 1..Len(prev.sent) :
                \/ prev.sent[j] \in already_contacted
                \/ \E m \in 1..Len(rows) : rows[m].email = prev.sent[j])

C19_Witness ==
    /\ prev.how = "send_aborted" /\ prev.sent # <<>>
    /\ opt.skip_contacted
    /\ sent # <<>>
    /\ sent[1].email = prev.sent[1]

\* C20: a live run with a delay has slept once after each successful send
\* but the last of the list: N-1 times when it completes over N recipients,
\* i times when it aborts at recipient i; a run with no delay, or a dry
\* run, never sleeps.
C20_SleepsBetweenSends ==
    pc # "Idle" =>
      /\ (opt.delay = 0 \/ opt.dry_run => sleeps = 0)
      /\ (opt.delay > 0 /\ ~opt.dry_run
            => /\ sleeps =
                    (IF sent = <<>> THEN 0
                     ELSE IF pc = "Sleeping"
                             \/ (pc = "Killed" /\ outcome = "Sleeping")
                     THEN Len(sent) - 1
                     ELSE Min(Len(sent), Len(rows) - 1))
               /\ (pc = "Done" /\ outcome \in {"completed", "committed"}
                     => sleeps = Len(rows) - 1)
               /\ (pc = "Aborted"
                        /\ outcome \in SendFailures \cup {"undefined_error"}
                     => sleeps = i))

C20_Witness ==
    /\ pc = "Done" /\ outcome = "committed"
    /\ opt.delay > 0
    /\ Len(rows) = 3 /\ sleeps = 2


\* C21: within one run no address is sent more than one message, and none
\* is attempted twice, whatever rows the contacts file holds.
C21_NoAddressSentTwice ==
    /\ \A j \in 1..Len(sent) : \A m \in 1..Len(sent) :
          j # m => sent[j].email # sent[m].email
    /\ \A j \in 1..Len(attempted) : \A m \in 1..Len(attempted) :
          j # m => attempted[j] # attempted[m]

=============================================================================
